---- MODULE Spec2Model ----
(***************************************************************************)
(* Model of the fika-core planning pipeline:                               *)
(*   run_full_pipeline -> run_cvrptw -> build_problem / solve_cvrptw       *)
(*                     -> optimize_day_route_with_aco                      *)
(* Times are minutes from midnight.  Coordinates are points on a line,     *)
(* given in km east of the origin, so that the great-circle distance of    *)
(* two points is the absolute difference of their positions.               *)
(***************************************************************************)
EXTENDS Integers, Sequences, FiniteSets, TLC

VARIABLES
    req,        \* the call's arguments: selection (MAUT output), dates, pacing, mandatory, hotel
    use_aco,    \* the use_aco argument, drawn where run_full_pipeline first reads it
    pc,         \* position of the call inside run_full_pipeline / run_cvrptw
    day_specs,  \* build_problem's DaySpec list
    nodes,      \* build_problem's Node list (nodes[1] is the depot)
    meals_required, \* run_cvrptw's meals_required handed to solve_cvrptw
    route,      \* the route of the vehicle the search is extending: <<[n, t]>>
    visited,    \* the node indices active in the assignment under construction
    plan,       \* day plans of the vehicles already closed, in vehicle order
    cvrptw_output,  \* what run_cvrptw returned
    raised,     \* an exception in flight, and the frame it is in
    day_i,      \* index of the day the ACO loop of run_full_pipeline is at
    result,     \* what run_full_pipeline returned
    payload,    \* the MAUT request of maut.run_pipeline and the rows the catalog returned
    maut_out,   \* the outputs of maut.run_pipeline so far, by the num_days of the call
    scoring,    \* a score_row call: the request, the row, and the dims and weights it used
    osrm,       \* the shared OSRMClient object: use_osrm and _osrm_available
    network,    \* the requests sent to the OSRM server so far: probes and others
    callers,    \* the calls of the client's methods in flight, one worker thread each
    colony      \* an AntColonyOptimizer run: its cities, the ant under way, best_path

\* the variables of a run_full_pipeline call
pipeline_vars == <<req, use_aco, pc, day_specs, nodes, meals_required, route, visited,
                   plan, cvrptw_output, raised, day_i, result>>
maut_vars == <<payload, maut_out, scoring>>
osrm_vars == <<osrm, network, callers>>
aco_vars == <<colony>>
\* the variables a run_full_pipeline call leaves alone in this model
aux_vars == <<maut_vars, osrm_vars, aco_vars>>

vars == <<pipeline_vars, aux_vars>>

----------------------------------------------------------------------------
(* Bounds of the model *)

\* largest number of POIs drawn from the general catalog into one selection
MaxPois == 2
\* largest (end - start).days + 1 of a request
MaxDays == 2

----------------------------------------------------------------------------
(* Small helpers *)

Max2(a, b) == IF a >= b THEN a ELSE b
Min2(a, b) == IF a <= b THEN a ELSE b
Abs(a) == IF a >= 0 THEN a ELSE -a

RECURSIVE Flatten(_)
Flatten(ss) == IF ss = <<>> THEN <<>> ELSE Head(ss) \o Flatten(Tail(ss))

RECURSIVE SeqSum(_)
SeqSum(s) == IF s = <<>> THEN 0 ELSE Head(s) + SeqSum(Tail(s))

Range(s) == {s[i] : i \in 1..Len(s)}

None == "None"

----------------------------------------------------------------------------
(* cvrptw.py: configuration *)

PACE_DAY_BUDGET_MIN ==
    [relaxed |-> 9 * 60, balanced |-> 11 * 60, packed |-> 13 * 60]

SERVICE_TIME ==
    [attraction    |-> [relaxed |-> 120, balanced |-> 90, packed |-> 60],
     meal          |-> [relaxed |-> 75,  balanced |-> 60, packed |-> 45],
     accommodation |-> [relaxed |-> 0,   balanced |-> 0,  packed |-> 0]]

DEFAULT_ROLE_WINDOWS ==
    [attraction    |-> <<9 * 60, 19 * 60>>,
     meal          |-> <<10 * 60, 22 * 60>>,
     accommodation |-> <<0, 24 * 60>>,
     depot         |-> <<0, 24 * 60>>]

PENALTY_MEAL_TO_MEAL == 40
PENALTY_SAME_THEME == 15
DROP_PENALTY_BASE == 2000
\* max slack of the Time dimension, AddDimension(t_idx, 120, ...)
TIME_SLACK_MAX == 120
\* capacity of the Meals dimension, AddDimension(meal_idx, 0, 3, True, "Meals")
MEALS_CAPACITY == 3
\* the default fallback speed of matrix_minutes, km/h
FALLBACK_SPEED_KMH == 25

----------------------------------------------------------------------------
(* The catalog the selections are drawn from.                              *)
(* A label of an open-hours entry is one of                                *)
(*   [kind |-> "closed"], [kind |-> "open24"], [kind |-> "junk"],          *)
(*   [kind |-> "range", l |-> <<h, m, ampm>>, r |-> <<h, m, ampm>>].       *)
(* open_hours maps a weekday 0..6 to a list of labels; NoHours is a POI    *)
(* without openHours.                                                      *)

Closed == [kind |-> "closed"]
Open24 == [kind |-> "open24"]
Junk == [kind |-> "junk"]
Rng(h1, ap1, h2, ap2) == [kind |-> "range", l |-> <<h1, 0, ap1>>, r |-> <<h2, 0, ap2>>]

Weekdays == 0..6
NoHours == [w \in Weekdays |-> <<>>]
EveryDay(labels) == [w \in Weekdays |-> labels]

\* the weekday of the first day of every request
StartDates == {5}

Catalog ==
    [a1 |-> [list |-> "attraction", poi_roles |-> {"attraction"},
             themes |-> <<"nature">>, km |-> 5, openHours |-> NoHours],
     a2 |-> [list |-> "attraction", poi_roles |-> {"attraction"},
             themes |-> <<"nature">>, km |-> 5,
             openHours |-> EveryDay(<<Rng(9, "am", 10, "am")>>)],
     a3 |-> [list |-> "attraction", poi_roles |-> {"attraction"},
             themes |-> <<"shopping">>, km |-> 10,
             openHours |-> [w \in Weekdays |->
                              IF w = 5 THEN <<Closed>>
                              ELSE IF w = 6 THEN <<Closed, Rng(2, "pm", 5, "pm")>>
                              ELSE <<Junk>>]],
     m1 |-> [list |-> "meal", poi_roles |-> {"meal"},
             themes |-> <<>>, km |-> 10, openHours |-> NoHours],
     m2 |-> [list |-> "meal", poi_roles |-> {"meal"},
             themes |-> <<"food_culinary">>, km |-> 15,
             openHours |-> EveryDay(<<Rng(3, "pm", 5, "pm"), Rng(6, "pm", 9, "pm")>>)],
     x1 |-> [list |-> "meal", poi_roles |-> {"meal", "attraction"},
             themes |-> <<"nature">>, km |-> 15,
             openHours |-> EveryDay(<<Rng(6, "am", 8, "am")>>)],
     m3 |-> [list |-> "meal", poi_roles |-> {"meal"},
             themes |-> <<>>, km |-> 10, openHours |-> EveryDay(<<Open24>>)],
     m4 |-> [list |-> "meal", poi_roles |-> {"meal"},
             themes |-> <<>>, km |-> 10, openHours |-> NoHours],
     m5 |-> [list |-> "meal", poi_roles |-> {"meal"},
             themes |-> <<>>, km |-> 10, openHours |-> NoHours]]

\* the catalog in descending score order (the order of the role lists)
CatalogOrder == <<"a1", "a2", "a3", "m1", "m2", "x1", "m3", "m4", "m5">>
GeneralIds == {"a1", "a2", "a3", "m1", "m2", "x1"}
\* a selection of four restaurants side by side
FoodCourt == {"m1", "m3", "m4", "m5"}

Selections == {S \in SUBSET GeneralIds : Cardinality(S) <= MaxPois} \cup {FoodCourt}

Pacings == {"relaxed", "balanced", "packed"}

NoMandatory == [p \in {} |-> None]
\* mandatory: {poi_id: {"day": d, "window": ["15:00", "16:30"]}}, the window
\* texts as <<hours, minutes>>
MandatoryChoices ==
    {NoMandatory}
    \cup {[p \in {id} |-> [day |-> d, window |-> <<<<15, 0>>, <<16, 30>>>>]] :
             id \in {"a1", "a3"}, d \in 1..MaxDays}

\* transformers.calculate_num_days(payload); 0 stands for an absent num_days
\* or dates.days, span is (endDate - startDate).days + 1
calculate_num_days(p) ==
    IF p.num_days # 0 THEN Max2(1, p.num_days)
    ELSE IF p.dates.days # 0 THEN Max2(1, p.dates.days)
    ELSE IF p.dates.type = "specific" THEN Max2(1, p.dates.span)
    ELSE 3

\* the dates and num_days of the frontend payload: specific dates of span
\* 0..MaxDays (0: endDate the day before startDate) without num_days, one
\* payload whose num_days disagrees with its dates, and flexible dates of one
\* day (their first day is today)
PayloadChoices ==
    {[num_days |-> 0, dates |-> [type |-> "specific", startDate |-> s, span |-> n, days |-> 0]] :
        s \in StartDates, n \in 0..MaxDays}
    \cup {[num_days |-> MaxDays,
           dates |-> [type |-> "specific", startDate |-> s, span |-> 1, days |-> 0]] :
             s \in StartDates}
    \cup {[num_days |-> 0, dates |-> [type |-> "flexible", startDate |-> s, span |-> 0, days |-> 1]] :
             s \in StartDates}

\* meta.dates and meta.num_days as create_itinerary sets them (itinerary.py
\* 112-113): the payload's dates and the num_days the MAUT request was given
DateChoices ==
    {[type |-> p.dates.type, startDate |-> p.dates.startDate, span |-> p.dates.span,
      num_days |-> calculate_num_days(p)] : p \in PayloadChoices}

\* the hotel the call resolves: the `hotel` argument, else meta.selected_hotel
\* (whose coordinates may be missing), else none
HotelChoices ==
    {[id |-> "h1", name |-> "h1", km |-> 0, has_coords |-> TRUE, source |-> "argument"],
     [id |-> "h1", name |-> "h1", km |-> 0, has_coords |-> FALSE, source |-> "selected"],
     [id |-> None, name |-> None, km |-> 0, has_coords |-> FALSE, source |-> "missing"]}

----------------------------------------------------------------------------
(* cvrptw.py: helper functions *)

\* to_min inside parse_time_range_label: x = <<h, m, ampm>>
to_min(x) ==
    LET h == x[1]
        hh == IF x[3] = "am" THEN (IF h = 12 THEN 0 ELSE h)
              ELSE (IF h # 12 THEN h + 12 ELSE h)
    IN hh * 60 + x[2]

\* parse_time_range_label: a window <<a, b>>, or NoRange for None
NoRange == <<>>

parse_time_range_label(label) ==
    IF label.kind = "closed" THEN NoRange
    ELSE IF label.kind = "open24" THEN <<0, 24 * 60>>
    ELSE IF label.kind = "range" THEN
        LET a == to_min(label.l)
            b == to_min(label.r)
        IN <<a, IF b <= a THEN 24 * 60 ELSE b>>
    ELSE NoRange

\* weekday_name: dates are day numbers, the weekday is the date modulo 7
weekday_name(date) == date % 7

\* minutes("HH:MM")
minutes(hhmm) == hhmm[1] * 60 + hhmm[2]

\* fmt inside solve_cvrptw: minutes to "HH:MM", as <<hours, minutes>>
fmt(t) == <<t \div 60, t % 60>>

\* a variant that gives every pacing the balanced horizon
day_span_always_balanced(pacing) ==
    <<9 * 60, 9 * 60 + PACE_DAY_BUDGET_MIN["balanced"]>>

\* day_span(pacing)
day_span(pacing) ==
    LET horizon == PACE_DAY_BUDGET_MIN[pacing]
    IN <<9 * 60, 9 * 60 + horizon>>

\* the loop of extract_windows_for_date over the labels of one weekday: the
\* list `out`
RECURSIVE ExtractOut(_, _)
ExtractOut(raw, default_window) ==
    IF raw = <<>> THEN <<>>
    ELSE LET lab == Head(raw)
             rest == ExtractOut(Tail(raw), default_window)
             rng == parse_time_range_label(lab)
         IN IF lab.kind = "closed" THEN rest
            ELSE IF rng = NoRange THEN rest
            ELSE LET a1 == Max2(rng[1], default_window[1])
                     b1 == Min2(rng[2], default_window[2])
                 IN IF a1 <= b1 THEN <<<<a1, b1>>>> \o rest ELSE rest

closed_explicit(raw) == \E i \in 1..Len(raw) : raw[i].kind = "closed"

\* a variant that reads an all-closed day as the default window
extract_windows_closed_as_default(open_hours, date, default_window) ==
    IF open_hours = NoHours THEN <<default_window>>
    ELSE LET raw == open_hours[weekday_name(date)]
             out == ExtractOut(raw, default_window)
         IN IF out # <<>> THEN out ELSE <<default_window>>

\* extract_windows_for_date(open_hours, date, default_window)
extract_windows_for_date(open_hours, date, default_window) ==
    IF open_hours = NoHours THEN <<default_window>>
    ELSE LET raw == open_hours[weekday_name(date)]
         IN IF raw = <<>> THEN <<default_window>>
            ELSE LET out == ExtractOut(raw, default_window)
                 IN IF out # <<>> THEN out
                    ELSE IF closed_explicit(raw) THEN <<>>
                    ELSE <<default_window>>

----------------------------------------------------------------------------
(* cvrptw.py: build_problem *)

\* num_days of build_problem, lines 186-204
ResolveNumDays(dates) ==
    LET n0 == IF dates.num_days <= 0 THEN 3 ELSE dates.num_days
    IN IF dates.type = "specific" THEN dates.span ELSE n0

\* the DaySpec list, lines 206-218 (range(num_days) is empty for num_days <= 0)
BuildDaySpecs(dates, pacing, hotel_id) ==
    LET n == ResolveNumDays(dates)
        span == day_span(pacing)
    IN [k \in 1..Max2(n, 0) |->
          [day_index |-> k - 1, date |-> dates.startDate + (k - 1),
           start_min |-> span[1], end_min |-> span[2], depot_id |-> hotel_id]]

\* the composite id f"{poi['id']}_day{day_idx}" as the pair <<id, day_idx>>; an
\* id without a suffix is <<id, -1>>; poi_id.rsplit("_day", 1)[0] gives back the
\* part before the last "_day"
CompositeId(id, day_idx) == <<id, day_idx>>
PlainId(id) == <<id, -1>>
BaseIdOf(poi_id) == poi_id[1]

\* the depot Node, lines 224-236
DepotNode(h, specs) ==
    [poi_id |-> PlainId(h.id), name |-> h.name, role |-> "depot", km |-> h.km,
     service |-> 0, themes |-> <<>>,
     windows_by_day |-> [d \in {specs[k].day_index : k \in 1..Len(specs)} |->
                           <<<<specs[d + 1].start_min, specs[d + 1].end_min>>>>],
     is_mandatory |-> FALSE]

\* _add_poi_node for the copy of POI `id` made for day `day_specific`: the list
\* of Nodes it appends, empty when it returns early (the selected POIs all have
\* coordinates)
_add_poi_node(id, day_specific, role, specs, pacing, mandatory) ==
    LET poi == Catalog[id]
        poi_id == CompositeId(id, day_specific)
        service == SERVICE_TIME[role][pacing]
        role_default == DEFAULT_ROLE_WINDOWS[role]
        d == specs[day_specific + 1]
        day_default == <<Max2(d.start_min, role_default[1]),
                         Min2(d.end_min, role_default[2])>>
        windows == extract_windows_for_date(poi.openHours, d.date, day_default)
        base_id == BaseIdOf(poi_id)
        is_mand == /\ base_id \in DOMAIN mandatory
                   /\ day_specific = mandatory[base_id].day - 1
        wbd == IF is_mand
               THEN [k \in {mandatory[base_id].day - 1} |->
                       <<<<minutes(mandatory[base_id].window[1]),
                           minutes(mandatory[base_id].window[2])>>>>]
               ELSE [k \in {day_specific} |-> windows]
    IN IF windows = <<>> THEN <<>>
       ELSE <<[poi_id |-> poi_id, name |-> id, role |-> role, km |-> poi.km,
               service |-> service, themes |-> poi.themes,
               windows_by_day |-> wbd, is_mandatory |-> is_mand]>>

\* pois_by_role[role] of the MAUT output, in score order
role_pois(selection, role) ==
    SelectSeq(CatalogOrder, LAMBDA id : id \in selection /\ Catalog[id].list = role)

\* the loops of lines 246-269 for one role: one copy per POI and day
BuildRoleNodes(selection, role, specs, pacing, mandatory) ==
    LET pois == role_pois(selection, role)
    IN Flatten([i \in 1..Len(pois) |->
                  Flatten([k \in 1..Len(specs) |->
                             _add_poi_node(pois[i], k - 1, role, specs, pacing, mandatory)])])

\* the Node list of build_problem: the depot, then the meal copies, then the
\* attraction copies (accommodation is skipped)
BuildNodes(selection, h, specs, pacing, mandatory) ==
    <<DepotNode(h, specs)>>
    \o BuildRoleNodes(selection, "meal", specs, pacing, mandatory)
    \o BuildRoleNodes(selection, "attraction", specs, pacing, mandatory)

\* haversine_matrix entry for two positions: whole minutes at 25 km/h
\* (max(0, int(round(sec / 60))), 0 on the diagonal)
haversine_minutes(km1, km2) ==
    (Abs(km1 - km2) * 60 * 2 + FALLBACK_SPEED_KMH) \div (2 * FALLBACK_SPEED_KMH)

\* travel[i][j] of build_problem for node indices i, j (1-based): the matrix of
\* osrm_client.matrix_minutes on its Haversine path
travel(ns, i, j) == IF i = j THEN 0 ELSE haversine_minutes(ns[i].km, ns[j].km)

----------------------------------------------------------------------------
(* cvrptw.py: solve_cvrptw, the routing model it states *)

\* transit_cb between node indices i and j: the arc cost and the transit of the
\* Time dimension
transit_cb(ns, i, j) ==
    LET base == travel(ns, i, j) + ns[i].service
        meal_bonus == IF ns[i].role = "meal" /\ ns[j].role = "meal"
                      THEN PENALTY_MEAL_TO_MEAL ELSE 0
        theme_bonus == IF /\ ns[i].themes # <<>>
                          /\ ns[j].themes # <<>>
                          /\ ns[i].themes[1] = ns[j].themes[1]
                       THEN PENALTY_SAME_THEME ELSE 0
    IN base + meal_bonus + theme_bonus

\* capacity of the Time dimension: max(d.end_min for d in day_specs)
RECURSIVE MaxEndMin(_)
MaxEndMin(specs) ==
    IF specs = <<>> THEN 0 ELSE Max2(Head(specs).end_min, MaxEndMin(Tail(specs)))

available_days(n) == DOMAIN n.windows_by_day

\* SetAllowedVehiclesForIndex([day_v], ...) for a node of one day; a node of
\* several days may ride any vehicle
AllowedVehicle(n, v) ==
    IF Cardinality(available_days(n)) = 1 THEN v \in available_days(n) ELSE TRUE

\* the range the CumulVar of node n is left with by the SetRange calls of lines
\* 462-474: the first window of its day (of each of its days, intersected)
CumulRange(n) ==
    LET firsts == {n.windows_by_day[d][1] : d \in available_days(n)}
        lo == CHOOSE a \in {w[1] : w \in firsts} : \A w \in firsts : w[1] <= a
        hi == CHOOSE b \in {w[2] : w \in firsts} : \A w \in firsts : w[2] >= b
    IN <<lo, hi>>

\* a variant that keys the disjunctions by the composite id
DisjunctionKeyComposite(n) == n.poi_id

\* by_poi: the key of the disjunction a node is put in
DisjunctionKey(n) == BaseIdOf(n.poi_id)

\* the penalty of the disjunction of base id `key`
DisjunctionPenalty(ns, key) ==
    IF \E i \in 2..Len(ns) : DisjunctionKey(ns[i]) = key /\ ns[i].is_mandatory
    THEN 10000000 ELSE DROP_PENALTY_BASE

\* meal_cb: the transit of the Meals dimension into node j
meal_cb(ns, j) == IF ns[j].role = "meal" THEN 1 ELSE 0

\* available_meals of vehicle v, lines 501-506
available_meals(ns, v) ==
    Cardinality({i \in 1..Len(ns) :
        /\ ns[i].role = "meal"
        /\ (Cardinality(DOMAIN ns[i].windows_by_day) > 1 \/ v \in DOMAIN ns[i].windows_by_day)})

req_min(ns, v, required) == Min2(required, available_meals(ns, v))
req_max(ns, v) == Min2(3, available_meals(ns, v))

\* the range of the Meals CumulVar at the end of vehicle v's route
MealsEndRange(ns, v, required) ==
    IF required > 0 /\ req_min(ns, v, required) > 0
    THEN <<req_min(ns, v, required), req_max(ns, v)>>
    ELSE <<0, MEALS_CAPACITY>>

\* a variant whose minimum is min(1, ...)
MealsRequiredAtMostOne(ns, specs) ==
    LET meal_nodes == Cardinality({i \in 1..Len(ns) : ns[i].role = "meal"})
    IN IF meal_nodes > 0 /\ Len(specs) > 0
       THEN Min2(1, meal_nodes \div Len(specs))
       ELSE 0

\* meals_required of run_cvrptw, lines 630-639
MealsRequired(ns, specs) ==
    LET meal_nodes == Cardinality({i \in 1..Len(ns) : ns[i].role = "meal"})
    IN IF meal_nodes > 0 /\ Len(specs) > 0
       THEN Min2(2, meal_nodes \div Len(specs))
       ELSE 0

----------------------------------------------------------------------------
(* solve_cvrptw: result assembly, lines 527-581 *)

RouteMeals(ns, r) == Cardinality({i \in 1..Len(r) : ns[r[i].n].role = "meal"})

\* the stop emitted for a visited non-depot node
PoiStop(ns, visit) ==
    LET n == ns[visit.n]
    IN [poi_id |-> n.poi_id, name |-> n.name, role |-> n.role, themes |-> n.themes,
        arrival |-> fmt(visit.t), start_service |-> fmt(visit.t),
        depart |-> fmt(visit.t + n.service), km |-> n.km]

\* the hotel return appended at the end of the day
HotelStop(ns, end_time) ==
    LET depot_node == ns[1]
    IN [poi_id |-> depot_node.poi_id, name |-> depot_node.name, role |-> "hotel",
        themes |-> <<>>,
        arrival |-> fmt(end_time), start_service |-> fmt(end_time),
        depart |-> fmt(end_time), km |-> depot_node.km]

\* a variant that also emits the opening depot visit
DayPlanWithOpeningDepot(ns, d, r, end_time) ==
    [date |-> d.date,
     stops |-> <<HotelStop(ns, d.start_min)>>
               \o [i \in 1..Len(r) |-> PoiStop(ns, r[i])]
               \o <<HotelStop(ns, end_time)>>,
     meals |-> RouteMeals(ns, r)]

\* day_plan of vehicle v for the route r (the visits after the start depot)
DayPlan(ns, d, r, end_time) ==
    [date |-> d.date,
     stops |-> [i \in 1..Len(r) |-> PoiStop(ns, r[i])] \o <<HotelStop(ns, end_time)>>,
     meals |-> RouteMeals(ns, r)]

----------------------------------------------------------------------------
(* ant_colony_opt.py: the tours _construct_solution can build *)

\* heuristic[i, j] > 0 for 0-based cities i, j of the POI stops ps: the inverse
\* of a distance that is positive
HeuristicPositive(ps, i, j) == ps[i + 1].km # ps[j + 1].km

\* the values np.searchsorted(cumsum, r) can take at one step, for the ant at
\* `current` with `path` behind it.  Pheromones stay positive, so probs[j] > 0
\* exactly for the unvisited j with a positive heuristic, and a draw r > 0
\* picks one of those; when no such j exists cumsum is all zero and the search
\* returns n.  The draw r = 0.0 (np.random.random() is in [0, 1)) finds
\* cumsum[0] >= r and returns 0, visited or not.  From the index n on the ant
\* reads rows outside the arrays (numba does no bounds check), and any index
\* 0..n may follow.
NextCities(ps, path) ==
    LET n == Len(ps)
        current == path[Len(path)]
        cand == {j \in 0..(n - 1) : j \notin Range(path) /\ HeuristicPositive(ps, current, j)}
    IN IF \E k \in 1..Len(path) : path[k] = n THEN 0..n
       ELSE IF cand = {} THEN {0, n}
       ELSE cand \cup {0}

RECURSIVE PathsFrom(_, _)
PathsFrom(ps, path) ==
    IF Len(path) = Len(ps) THEN {path}
    ELSE UNION {PathsFrom(ps, Append(path, c)) : c \in NextCities(ps, path)}

\* the best_path values optimize() can return for the POI stops ps: a tour of
\* some ant, from some start city
BestPaths(ps) == UNION {PathsFrom(ps, <<start>>) : start \in 0..(Len(ps) - 1)}

----------------------------------------------------------------------------
(* pipeline.py *)

IsDepotStop(stop) == stop.role \in {"hotel", "depot"}

\* the result list of lines 97-108 for the reordered POI stops
Rewrap(depot_stops, optimized_pois) ==
    (IF Len(depot_stops) > 0 THEN <<depot_stops[1]>> ELSE <<>>)
    \o optimized_pois
    \o (IF Len(depot_stops) > 1 THEN <<depot_stops[Len(depot_stops)]>>
        ELSE IF Len(depot_stops) = 1 THEN <<depot_stops[1]>>
        ELSE <<>>)

\* optimize_day_route_with_aco(stops): the outcomes of one call, a returned
\* list or the IndexError of an index outside 0..n-1, raised by
\* _update_pheromones inside aco.optimize() or by poi_stops[i]
optimize_day_route_with_aco(stops) ==
    LET depot_stops == SelectSeq(stops, IsDepotStop)
        poi_stops == SelectSeq(stops, LAMBDA st : ~IsDepotStop(st))
    IN IF Len(stops) <= 2 THEN {[kind |-> "return", value |-> stops]}
       ELSE IF Len(poi_stops) <= 1 THEN {[kind |-> "return", value |-> stops]}
       ELSE {IF \E k \in 1..Len(best_path) : best_path[k] >= Len(poi_stops)
             THEN [kind |-> "raise", value |-> <<>>]
             ELSE [kind |-> "return",
                   value |-> Rewrap(depot_stops,
                                    [k \in 1..Len(best_path) |-> poi_stops[best_path[k] + 1]])]
             : best_path \in BestPaths(poi_stops)}

\* _enrich_stops_with_coords: a copy of each stop with the coordinates of its
\* base POI when that POI is among the places
_enrich_stops_with_coords(stops, selection) ==
    [i \in 1..Len(stops) |->
        IF BaseIdOf(stops[i].poi_id) \in selection
        THEN [stops[i] EXCEPT !.km = Catalog[BaseIdOf(stops[i].poi_id)].km]
        ELSE stops[i]]

\* a variant without the except clause: the exception leaves run_cvrptw
run_cvrptw_reraise ==
    [kind |-> "raise", value |-> [days |-> <<>>, note |-> "Exception in run_cvrptw"]]

\* the except clause of run_cvrptw, lines 648-649
run_cvrptw_except ==
    [kind |-> "return", value |-> [days |-> <<>>, note |-> "Exception in run_cvrptw"]]

\* _calculate_day_distance: the sum of osrm_client.distance over consecutive
\* stops, on its Haversine path
RECURSIVE _calculate_day_distance(_)
_calculate_day_distance(stops) ==
    IF Len(stops) < 2 THEN 0
    ELSE Abs(stops[1].km - stops[2].km) + _calculate_day_distance(Tail(stops))

----------------------------------------------------------------------------
(* The state machine of one call of run_full_pipeline *)

\* the start cumul the search gives a vehicle, as an offset from start_min, and
\* the slack it leaves before an arrival
StartOffsets == {0, 360}
SlackChoices == {0, TIME_SLACK_MAX}

\* no MAUT call, no OSRM call and no ACO run under way
NoPayload == [interest_themes |-> <<>>, rows |-> <<>>]
MautIdle == payload = NoPayload /\ maut_out = <<>> /\ scoring = <<>>
OsrmIdle == osrm = <<>> /\ network = <<>> /\ callers = <<>>
AcoIdle == colony = <<>>

NoOutput == [days |-> <<>>, note |-> "pending"]
NoResult == [status |-> "pending", days |-> <<>>, error |-> None]

Init ==
    /\ req \in [selection : Selections, dates : DateChoices, pacing : Pacings,
                mandatory : MandatoryChoices, hotel : HotelChoices]
    /\ DOMAIN req.mandatory \subseteq req.selection
    /\ use_aco = FALSE
    /\ pc = "call"
    /\ day_specs = <<>>
    /\ nodes = <<>>
    /\ meals_required = 0
    /\ route = <<>>
    /\ visited = {}
    /\ plan = <<>>
    /\ cvrptw_output = NoOutput
    /\ raised = None
    /\ day_i = 0
    /\ result = NoResult
    /\ MautIdle
    /\ OsrmIdle
    /\ AcoIdle

\* run_full_pipeline, lines 157-175: the hotel is the argument or MAUT's
\* selected hotel; without either the call returns an error
ResolveHotel ==
    /\ pc = "call"
    /\ IF req.hotel.source = "missing"
       THEN /\ result' = [status |-> "error", days |-> <<>>,
                          error |-> "No hotel provided and no hotel selected by MAUT"]
            /\ pc' = "returned"
       ELSE /\ pc' = "run_cvrptw"
            /\ UNCHANGED result
    /\ UNCHANGED <<aux_vars, req, use_aco, day_specs, nodes, meals_required, route, visited, plan,
                   cvrptw_output, raised, day_i>>

\* run_cvrptw up to the call of solve_cvrptw, lines 607-647.  build_problem
\* raises (float(None)) when the hotel has no coordinates.
RunCvrptwBuild ==
    /\ pc = "run_cvrptw"
    /\ IF ~req.hotel.has_coords
       THEN /\ IF run_cvrptw_except.kind = "return"
               THEN /\ cvrptw_output' = run_cvrptw_except.value
                    /\ pc' = "cvrptw_returned"
                    /\ UNCHANGED raised
               ELSE /\ raised' = "run_cvrptw"
                    /\ pc' = "except"
                    /\ UNCHANGED cvrptw_output
            /\ UNCHANGED <<day_specs, nodes, meals_required>>
       ELSE LET specs == BuildDaySpecs(req.dates, req.pacing, req.hotel.id)
                ns == BuildNodes(req.selection, req.hotel, specs, req.pacing, req.mandatory)
            IN /\ day_specs' = specs
               /\ nodes' = ns
               /\ UNCHANGED raised
               /\ IF specs = <<>>
                  THEN /\ cvrptw_output' = [days |-> <<>>, note |-> "No day_specs generated"]
                       /\ pc' = "cvrptw_returned"
                       /\ UNCHANGED meals_required
                  ELSE IF Len(ns) <= 1
                  THEN /\ cvrptw_output' = [days |-> <<>>, note |-> "Only depot node"]
                       /\ pc' = "cvrptw_returned"
                       /\ UNCHANGED meals_required
                  ELSE /\ meals_required' = MealsRequired(ns, specs)
                       /\ pc' = "solving"
                       /\ UNCHANGED cvrptw_output
    /\ UNCHANGED <<aux_vars, req, use_aco, route, visited, plan, day_i, result>>

\* the vehicle whose route the search is extending (0-based)
CurVehicle == Len(plan)

\* AddDisjunction(indices, penalty, 1): at most one node of a disjunction is
\* active, so ni may join only if no active node shares its key
DisjunctionFree(ni) ==
    \A j \in visited : DisjunctionKey(nodes[j]) # DisjunctionKey(nodes[ni])

\* where the vehicle stands: its last visit, or the start depot at the start
\* cumul start_min + off
Standing(off) ==
    IF route = <<>> THEN [n |-> 1, t |-> day_specs[CurVehicle + 1].start_min + off]
    ELSE route[Len(route)]

\* the search extends the route of the current vehicle by the node ni, within
\* the constraints solve_cvrptw states
SolverVisit(ni, off, slack) ==
    /\ pc = "solving"
    /\ LET v == CurVehicle
           d == day_specs[v + 1]
           at == Standing(off)
           t == at.t + transit_cb(nodes, at.n, ni) + slack
       IN /\ d.start_min + off <= d.end_min
          /\ AllowedVehicle(nodes[ni], v)
          /\ DisjunctionFree(ni)
          /\ CumulRange(nodes[ni])[1] <= t
          /\ t <= CumulRange(nodes[ni])[2]
          /\ t <= MaxEndMin(day_specs)
          /\ RouteMeals(nodes, route) + meal_cb(nodes, ni) <= MEALS_CAPACITY
          /\ route' = Append(route, [n |-> ni, t |-> t])
          /\ visited' = visited \cup {ni}
    /\ UNCHANGED <<aux_vars, req, use_aco, pc, day_specs, nodes, meals_required, plan,
                   cvrptw_output, raised, day_i, result>>

\* the search closes the route of the current vehicle at the depot; with the
\* last vehicle closed SolveWithParameters returns the assignment and
\* solve_cvrptw its result
SolverReturn(off, slack) ==
    /\ pc = "solving"
    /\ LET v == CurVehicle
           d == day_specs[v + 1]
           at == Standing(off)
           end_time == at.t + transit_cb(nodes, at.n, 1) + slack
           meals == RouteMeals(nodes, route)
           range == MealsEndRange(nodes, v, meals_required)
           days == Append(plan, DayPlan(nodes, d, route, end_time))
       IN /\ d.start_min + off <= d.end_min
          /\ d.start_min <= end_time
          /\ end_time <= d.end_min
          /\ range[1] <= meals
          /\ meals <= range[2]
          /\ plan' = days
          /\ route' = <<>>
          /\ IF Len(days) = Len(day_specs)
             THEN /\ cvrptw_output' = [days |-> days, note |-> None]
                  /\ pc' = "cvrptw_returned"
             ELSE UNCHANGED <<cvrptw_output, pc>>
    /\ UNCHANGED <<aux_vars, req, use_aco, day_specs, nodes, meals_required, visited, raised,
                   day_i, result>>

\* SolveWithParameters returns no assignment, lines 528-529.  With every node
\* optional the empty routes are an assignment unless some day has a positive
\* meal minimum; only then can the search end without one.
SolverNoSolution ==
    /\ pc = "solving"
    /\ plan = <<>>
    /\ route = <<>>
    /\ \E v \in 0..(Len(day_specs) - 1) : MealsEndRange(nodes, v, meals_required)[1] > 0
    /\ cvrptw_output' = [days |-> <<>>, note |-> "No feasible solution"]
    /\ pc' = "cvrptw_returned"
    /\ UNCHANGED <<aux_vars, req, use_aco, day_specs, nodes, meals_required, route, visited, plan,
                   raised, day_i, result>>

\* a variant that reports an empty plan as a success
empty_days_success(output) ==
    [status |-> "success", days |-> <<>>, error |-> None]

\* the result for a solver output without days, lines 193-200
empty_days_result(output) ==
    [status |-> "error", days |-> <<>>, error |-> output.note]

\* run_full_pipeline, lines 186-200: an empty `days` is returned as an error
\* carrying the note; otherwise the call enters one of the loops of step 2
PipelineCheck ==
    /\ pc = "cvrptw_returned"
    /\ IF cvrptw_output.days = <<>>
       THEN /\ result' = empty_days_result(cvrptw_output)
            /\ pc' = "returned"
            /\ UNCHANGED <<use_aco, day_i>>
       ELSE /\ \E u \in BOOLEAN :
                 /\ use_aco' = u
                 /\ pc' = IF u THEN "aco" ELSE "no_aco"
            /\ day_i' = 1
            /\ UNCHANGED result
    /\ UNCHANGED <<aux_vars, req, day_specs, nodes, meals_required, route, visited, plan,
                   cvrptw_output, raised>>

\* one iteration of the loop of lines 205-226 over cvrptw_output["days"]
AcoDay ==
    /\ pc = "aco"
    /\ day_i <= Len(cvrptw_output.days)
    /\ LET day == cvrptw_output.days[day_i]
           enriched == _enrich_stops_with_coords(day.stops, req.selection)
       IN \E out \in (IF Len(enriched) > 2
                      THEN optimize_day_route_with_aco(enriched)
                      ELSE {[kind |-> "return", value |-> enriched]}) :
             IF out.kind = "raise"
             THEN /\ raised' = "optimize_day_route_with_aco"
                  /\ pc' = "except"
                  /\ UNCHANGED <<cvrptw_output, day_i>>
             ELSE /\ cvrptw_output' =
                        [cvrptw_output EXCEPT !.days[day_i] =
                            [date |-> day.date, stops |-> day.stops, meals |-> day.meals,
                             stops_cvrptw |-> enriched,
                             stops_aco |-> out.value,
                             optimization_method |->
                                 IF Len(enriched) > 2 THEN "cvrptw+aco" ELSE "cvrptw",
                             total_distance_cvrptw |-> _calculate_day_distance(enriched),
                             total_distance_aco |-> _calculate_day_distance(out.value),
                             total_distance |-> _calculate_day_distance(out.value)]]
                  /\ day_i' = day_i + 1
                  /\ UNCHANGED <<raised, pc>>
    /\ UNCHANGED <<aux_vars, req, use_aco, day_specs, nodes, meals_required, route, visited, plan, result>>

\* the loop of lines 229-235, taken when use_aco is false
NoAcoDays ==
    /\ pc = "no_aco"
    /\ cvrptw_output' =
         [cvrptw_output EXCEPT !.days =
            [i \in 1..Len(cvrptw_output.days) |->
               LET day == cvrptw_output.days[i]
                   enriched == _enrich_stops_with_coords(day.stops, req.selection)
               IN [date |-> day.date, stops |-> day.stops, meals |-> day.meals,
                   stops_cvrptw |-> enriched,
                   optimization_method |-> "cvrptw",
                   total_distance_cvrptw |-> _calculate_day_distance(enriched),
                   total_distance |-> _calculate_day_distance(enriched)]]]
    /\ day_i' = Len(cvrptw_output.days) + 1
    /\ pc' = "aco"
    /\ UNCHANGED <<aux_vars, req, use_aco, day_specs, nodes, meals_required, route, visited, plan,
                   raised, result>>

\* step 3 of run_full_pipeline, lines 238-260
PipelineReturn ==
    /\ pc = "aco"
    /\ day_i > Len(cvrptw_output.days)
    /\ result' =
         [status |-> "success", days |-> cvrptw_output.days, error |-> None,
          meta |-> [total_distance |->
                        SeqSum([i \in 1..Len(cvrptw_output.days) |->
                                   cvrptw_output.days[i].total_distance]),
                    total_stops |->
                        SeqSum([i \in 1..Len(cvrptw_output.days) |->
                                   Len(cvrptw_output.days[i].stops)]),
                    optimization_applied |-> use_aco,
                    pacing |-> req.pacing]]
    /\ pc' = "returned"
    /\ UNCHANGED <<aux_vars, req, use_aco, day_specs, nodes, meals_required, route, visited, plan,
                   cvrptw_output, raised, day_i>>

\* the except clause of run_full_pipeline, lines 262-268
PipelineExcept ==
    /\ pc = "except"
    /\ result' = [status |-> "error", days |-> <<>>, error |-> raised]
    /\ pc' = "returned"
    /\ UNCHANGED <<aux_vars, req, use_aco, day_specs, nodes, meals_required, route, visited, plan,
                   cvrptw_output, raised, day_i>>

Next ==
    \/ ResolveHotel
    \/ RunCvrptwBuild
    \/ \E ni \in 2..Len(nodes), off \in StartOffsets, slack \in SlackChoices :
          SolverVisit(ni, off, slack)
    \/ \E off \in StartOffsets, slack \in SlackChoices : SolverReturn(off, slack)
    \/ SolverNoSolution
    \/ PipelineCheck
    \/ AcoDay
    \/ NoAcoDays
    \/ PipelineReturn
    \/ PipelineExcept

Spec == Init /\ [][Next]_vars

----------------------------------------------------------------------------
(* No run_full_pipeline call under way: the state of the pipeline variables in
   the specifications of the other components *)

PipelineIdle ==
    /\ req = [selection |-> {}, dates |-> [type |-> "specific", startDate |-> 5,
                                           span |-> 0, num_days |-> 0],
              pacing |-> "balanced", mandatory |-> NoMandatory,
              hotel |-> [id |-> None, name |-> None, km |-> 0, has_coords |-> FALSE,
                         source |-> "missing"]]
    /\ use_aco = FALSE
    /\ pc = "idle"
    /\ day_specs = <<>>
    /\ nodes = <<>>
    /\ meals_required = 0
    /\ route = <<>>
    /\ visited = {}
    /\ plan = <<>>
    /\ cvrptw_output = NoOutput
    /\ raised = None
    /\ day_i = 0
    /\ result = NoResult

----------------------------------------------------------------------------
(* maut.py: derive_selected_themes, role_keep_counts, trim_by_role and
   run_pipeline *)

\* largest num_days of a maut.run_pipeline call
MaxTrimDays == 2
\* largest length of an interest_themes list
MaxThemes == 4

Themes == {"shopping", "cultural_history", "nature", "food_culinary"}

\* the elements of s at the indices in I, in order
Pick(s, I) ==
    [k \in 1..Cardinality(I) |->
        s[CHOOSE i \in I : Cardinality({j \in I : j <= i}) = k]]

\* a variant that keeps the repeated themes
KeepRepeats(s) == s

\* list(dict.fromkeys(s)): the first occurrences, in order
Dedupe(s) == Pick(s, {i \in 1..Len(s) : \A j \in 1..(i - 1) : s[j] # s[i]})

\* the loop over `fallback` of derive_selected_themes
RECURSIVE PadThemes(_, _)
PadThemes(t, fallback) ==
    IF fallback = <<>> \/ Len(t) >= 3 THEN t
    ELSE PadThemes(IF Head(fallback) \in Range(t) THEN t ELSE Append(t, Head(fallback)),
                   Tail(fallback))

derive_selected_themes(interest_themes) ==
    LET t == PadThemes(Dedupe(interest_themes), <<"shopping", "cultural_history", "nature">>)
    IN SubSeq(t, 1, Min2(3, Len(t)))

\* meta.selected_themes of the MAUT output run_cvrptw reads (cvrptw.py 608):
\* the requests of the pipeline model carry no interest themes
meta_selected_themes == derive_selected_themes(<<>>)

\* a variant whose attraction quota shrinks from two days on
role_keep_counts_shrinking(num_days) ==
    LET d == Max2(1, IF num_days = 0 THEN 7 ELSE num_days)
    IN [attraction |-> IF d >= 2 THEN 6 ELSE 12, meal |-> Min2(5 * d, 50),
        accommodation |-> Min2(d + 5, 15)]

\* role_keep_counts(num_days); num_days = 0 stands for None
role_keep_counts(num_days) ==
    LET d == Max2(1, IF num_days = 0 THEN 7 ELSE num_days)
    IN [attraction |-> Min2(12 * d, 300), meal |-> Min2(5 * d, 50),
        accommodation |-> Min2(d + 5, 15)]

Ids(rows) == {rows[i].id : i \in 1..Len(rows)}

\* the scores score_row gives, as whole numbers
Scores == 0..3

\* rows.sort(key=_score, reverse=True): descending, equal scores in list order
SortByScore(rows) ==
    Flatten([k \in 1..Cardinality(Scores) |->
               SelectSeq(rows, LAMBDA r : r._score = Cardinality(Scores) - k)])

\* by_role[role] of trim_by_role before the sort
by_role(scored, role) ==
    LET known == {"meal", "accommodation", "attraction"}
    IN SelectSeq(scored, LAMBDA r :
          IF role = "meal" THEN "meal" \in r.poi_roles
          ELSE IF role = "accommodation"
          THEN "accommodation" \in r.poi_roles /\ "attraction" \notin r.poi_roles
               /\ "meal" \notin r.poi_roles
          ELSE "attraction" \in r.poi_roles \/ r.poi_roles \cap known = {})

\* the rows of `rows` whose id is not in `seen` when a loop that adds each row
\* it takes to `seen` reaches them
TakeUnseen(rows, seen) ==
    Pick(rows, {i \in 1..Len(rows) :
                  /\ rows[i].id \notin seen
                  /\ \A j \in 1..(i - 1) : rows[j].id # rows[i].id})

\* a variant whose loop does not stop at the quota
PickRoleUnbounded(rows, quota, seen) == TakeUnseen(rows, seen)

\* the loop of lines 302-313 (and 356-367): the rows picked for one role, given
\* the ids seen before it; the loop ends once picked >= quota
PickRole(rows, quota, seen) ==
    LET unseen == TakeUnseen(rows, seen)
    IN SubSeq(unseen, 1, Min2(Max2(quota, 1), Len(unseen)))

\* the first selected theme a row carries, 0 if none
ThemeIndex(r, selected_themes) ==
    LET hits == {i \in 1..Len(selected_themes) : selected_themes[i] \in Range(r.themes)}
    IN IF hits = {} THEN 0 ELSE CHOOSE i \in hits : \A j \in hits : i <= j

\* the theme loop of lines 337-347, from theme index idx (1-based) on, with
\* `picked` so far
RECURSIVE PickThemes(_, _, _, _, _, _)
PickThemes(pool, selected_themes, quota, idx, seen, picked) ==
    IF idx > Len(selected_themes) THEN picked
    ELSE LET target_per_theme == quota \div Len(selected_themes)
             remainder == quota % Len(selected_themes)
             theme_quota == target_per_theme + (IF idx - 1 < remainder THEN 1 ELSE 0)
             theme_pois == SelectSeq(pool, LAMBDA r : ThemeIndex(r, selected_themes) = idx)
             head == SubSeq(theme_pois, 1, Min2(theme_quota, Len(theme_pois)))
         IN PickThemes(pool, selected_themes, quota, idx + 1, seen,
                       picked \o TakeUnseen(head, seen \cup Ids(picked)))

\* theme_quota of the theme at index idx (1-based), lines 339-340
theme_quota(quota, selected_themes, idx) ==
    quota \div Len(selected_themes)
    + (IF idx - 1 < quota % Len(selected_themes) THEN 1 ELSE 0)

\* the rows the theme loop appends in its iteration for the theme at index
\* idx: the unseen rows of by_theme[theme][:theme_quota]
RECURSIVE ThemeBucket(_, _, _, _, _)
ThemeBucket(pool, selected_themes, quota, idx, seen) ==
    LET earlier == Flatten([k \in 1..(idx - 1) |->
                              ThemeBucket(pool, selected_themes, quota, k, seen)])
        theme_pois == SelectSeq(pool, LAMBDA r : ThemeIndex(r, selected_themes) = idx)
        head == SubSeq(theme_pois, 1,
                       Min2(theme_quota(quota, selected_themes, idx), Len(theme_pois)))
    IN TakeUnseen(head, seen \cup Ids(earlier))

\* result["attraction"] of trim_by_role
PickAttractions(attractions, quota, selected_themes, seen) ==
    IF selected_themes # <<>> /\ attractions # <<>>
    THEN LET pool == SelectSeq(attractions, LAMBDA r : r.id \notin seen)
             themed == PickThemes(pool, selected_themes, quota, 1, seen, <<>>)
             remaining == SelectSeq(attractions, LAMBDA r : r.id \notin seen \cup Ids(themed))
         IN IF Len(themed) < quota
            THEN themed \o SubSeq(remaining, 1, Min2(quota - Len(themed), Len(remaining)))
            ELSE themed
    ELSE PickRole(attractions, quota, seen)

trim_by_role(scored, num_days, selected_themes) ==
    LET keep == role_keep_counts(num_days)
        accommodation == PickRole(SortByScore(by_role(scored, "accommodation")),
                                  keep.accommodation, {})
        meal == PickRole(SortByScore(by_role(scored, "meal")), keep.meal,
                         Ids(accommodation))
        attraction == PickAttractions(SortByScore(by_role(scored, "attraction")),
                                      keep.attraction, selected_themes,
                                      Ids(accommodation) \cup Ids(meal))
    IN [accommodation |-> accommodation, meal |-> meal, attraction |-> attraction]

\* the meta of the response of maut.run_pipeline for the request `p` (the
\* scores are those score_row gave the rows)
run_pipeline(p, num_days) ==
    LET selected_themes == derive_selected_themes(p.interest_themes)
        trimmed_by_role == trim_by_role(p.rows, num_days, selected_themes)
        all_trimmed == trimmed_by_role.accommodation \o trimmed_by_role.meal
                       \o trimmed_by_role.attraction
    IN [selected_themes |-> selected_themes,
        count_in |-> Len(p.rows),
        count_out |-> Len(all_trimmed),
        by_role |-> [attraction |-> Len(trimmed_by_role.attraction),
                     meal |-> Len(trimmed_by_role.meal),
                     accommodation |-> Len(trimmed_by_role.accommodation)],
        pois_by_role |-> trimmed_by_role,
        num_days |-> num_days]

\* the kinds of rows the catalog returns: roles and themes
RowKinds ==
    <<[poi_roles |-> {"attraction"}, themes |-> <<"nature">>],
      [poi_roles |-> {"attraction"}, themes |-> <<"shopping", "nature">>],
      [poi_roles |-> {"attraction"}, themes |-> <<"food_culinary">>],
      [poi_roles |-> {}, themes |-> <<>>],
      [poi_roles |-> {"meal"}, themes |-> <<>>],
      [poi_roles |-> {"meal", "attraction"}, themes |-> <<"nature">>],
      [poi_roles |-> {"accommodation"}, themes |-> <<>>],
      [poi_roles |-> {"accommodation", "attraction"}, themes |-> <<"shopping">>]>>

\* how many rows of each kind a candidate list may hold (the catalog may return
\* more rows than the quotas it was given)
KindCounts ==
    <<{0, 2, 13}, {0, 13}, {0, 2}, {0, 1}, {0, 3, 6}, {0, 2}, {0, 1, 7}, {0, 1}>>

CountVectors ==
    {<<c1, c2, c3, c4, c5, c6, c7, c8>> :
        c1 \in KindCounts[1], c2 \in KindCounts[2], c3 \in KindCounts[3],
        c4 \in KindCounts[4], c5 \in KindCounts[5], c6 \in KindCounts[6],
        c7 \in KindCounts[7], c8 \in KindCounts[8]}

\* the candidate list with c[k] rows of kind k: distinct ids, the rows of a
\* kind side by side, scores 0..3
CandidateRows(c) ==
    LET first(k) == SeqSum([j \in 1..(k - 1) |-> c[j]])
    IN Flatten([k \in 1..Len(RowKinds) |->
                  [i \in 1..c[k] |->
                     [id |-> first(k) + i, poi_roles |-> RowKinds[k].poi_roles,
                      themes |-> RowKinds[k].themes,
                      _score |-> ((first(k) + i) * 3) % Cardinality(Scores)]]])

\* a candidate list in which the catalog returned every row twice
RepeatedRows(c) == CandidateRows(c) \o CandidateRows(c)

\* the count vectors of the short candidate lists
ShortCountVectors == {c \in CountVectors : SeqSum(c) <= 6}

ThemeLists == UNION {[1..n -> Themes] : n \in 0..MaxThemes}

MautInit ==
    /\ payload \in
         {[interest_themes |-> t, rows |-> <<>>] : t \in ThemeLists}
         \cup {[interest_themes |-> t, rows |-> CandidateRows(c)] :
                  t \in {<<>>, <<"nature", "nature", "food_culinary">>},
                  c \in CountVectors}
         \cup {[interest_themes |-> <<>>, rows |-> RepeatedRows(c)] :
                  c \in ShortCountVectors}
    /\ maut_out = <<>>
    /\ scoring = <<>>
    /\ PipelineIdle
    /\ OsrmIdle
    /\ AcoIdle

\* one call of maut.run_pipeline for the request, with num_days = d
MautRunPipeline(d) ==
    /\ d \notin DOMAIN maut_out
    /\ maut_out' = [k \in DOMAIN maut_out \cup {d} |->
                      IF k = d THEN run_pipeline(payload, d) ELSE maut_out[k]]
    /\ UNCHANGED <<payload, scoring, pipeline_vars, osrm_vars, aco_vars>>

MautNext == \E d \in 1..MaxTrimDays : MautRunPipeline(d)

MautSpec == MautInit /\ [][MautNext]_vars

----------------------------------------------------------------------------
(* maut.py: applicable_dims and renorm_weights, as score_row calls them *)

\* BASE_WEIGHTS, in tenths
BASE_WEIGHTS ==
    [interest |-> 3, cost |-> 2, popularity |-> 1, child |-> 1, dietary |-> 1,
     pet |-> 1, access |-> 1]

\* applicable_dims(req, poi_roles); dietary_restrictions is read for
\* membership only and is a set here
applicable_dims(r, poi_roles) ==
    {"interest", "cost", "popularity"}
    \cup (IF r.flags.has_child THEN {"child"} ELSE {})
    \cup (IF r.flags.has_pets THEN {"pet"} ELSE {})
    \cup (IF "halal" \in r.dietary_restrictions /\ "meal" \in poi_roles
          THEN {"dietary"} ELSE {})
    \cup (IF r.flags.wheelchair_accessible THEN {"access"} ELSE {})

RECURSIVE WeightSum(_)
WeightSum(dims) ==
    IF dims = {} THEN 0
    ELSE LET d == CHOOSE x \in dims : TRUE
         IN BASE_WEIGHTS[d] + WeightSum(dims \ {d})

\* renorm_weights(dims): the weight of d is BASE_WEIGHTS[d] / s, kept as the
\* pair <<BASE_WEIGHTS[d], s>>
renorm_weights(dims) ==
    LET sum == WeightSum(dims)
    IN [d \in dims |-> IF sum > 0 THEN <<BASE_WEIGHTS[d], sum>> ELSE <<0, 1>>]

\* the requests of score_row: the flags of transform_frontend_payload and
\* the dietary_restrictions list of the payload
ScoreRequests ==
    {[flags |-> f, dietary_restrictions |-> dr] :
        f \in [has_child : BOOLEAN, has_pets : BOOLEAN, wheelchair_accessible : BOOLEAN,
               is_muslim : BOOLEAN],
        dr \in SUBSET {"halal", "vegan", "vegetarian"}}

\* row["poi_roles"], empty for None
RoleSets == SUBSET {"attraction", "meal", "accommodation"}

ScoreInit ==
    /\ scoring \in {[req |-> r, poi_roles |-> roles, dims |-> {}, W |-> <<>>,
                     pc |-> "call"] : r \in ScoreRequests, roles \in RoleSets}
    /\ payload = NoPayload
    /\ maut_out = <<>>
    /\ PipelineIdle
    /\ OsrmIdle
    /\ AcoIdle

\* score_row, lines 192-194: the dims of the row and their weights
ScoreRow ==
    /\ scoring.pc = "call"
    /\ LET dims == applicable_dims(scoring.req, scoring.poi_roles)
       IN scoring' = [scoring EXCEPT !.dims = dims, !.W = renorm_weights(dims),
                                     !.pc = "scored"]
    /\ UNCHANGED <<payload, maut_out, pipeline_vars, osrm_vars, aco_vars>>

ScoreNext == ScoreRow

ScoreSpec == ScoreInit /\ [][ScoreNext]_vars

----------------------------------------------------------------------------
(* osrm.py: the shared OSRMClient `osrm_client`, called from the worker threads
   that serve the requests *)

\* largest number of calls of the client's methods in one behaviour
MaxCalls == 2

MAX_OSRM_NODES == 1600
\* haversine_time_seconds' default speed, used by route()
ROUTE_SPEED_KMH == 30

\* the threads of the server's pool that call the client
Workers == {1, 2}

\* round(x) of Python for x = num / den, den > 0: halves go to the even side
RoundHalfEven(num, den) ==
    LET q == num \div den
        rem == num % den
    IN IF 2 * rem < den THEN q
       ELSE IF 2 * rem > den THEN q + 1
       ELSE IF q % 2 = 0 THEN q ELSE q + 1

\* haversine_time_seconds at 30 km/h and haversine_distance_km for positions
\* on a line (km)
haversine_time_seconds(km1, km2) == (Abs(km1 - km2) * 3600) \div ROUTE_SPEED_KMH
haversine_distance_km(km1, km2) == Abs(km1 - km2)

\* haversine_matrix(coords) / the fallback loop of matrix_minutes
haversine_matrix(km) ==
    [i \in 1..Len(km) |-> [j \in 1..Len(km) |->
        IF i = j THEN 0 ELSE haversine_minutes(km[i], km[j])]]

\* a coordinate list: n is its length and km its coordinates; of a list longer
\* than MAX_OSRM_NODES only the leading coordinates are kept (and the leading
\* block of the matrix computed for it)
Coords(n, km) == [n |-> n, km |-> km]

\* the calls a worker may make: method, coordinates, the use_osrm argument
CallChoices ==
    {[method |-> "route", coords |-> Coords(2, <<0, 5>>), use_osrm |-> u] : u \in BOOLEAN}
    \cup {[method |-> "distance", coords |-> Coords(2, <<0, 5>>), use_osrm |-> TRUE]}
    \cup {[method |-> "matrix_minutes", coords |-> c, use_osrm |-> TRUE] :
             c \in {Coords(0, <<>>), Coords(1, <<5>>), Coords(2, <<0, 5>>),
                    Coords(3, <<0, 5, 5>>), Coords(MAX_OSRM_NODES + 1, <<0, 5>>)}}

\* what a GET can end in.  An "ok" body of /route carries duration (s) and
\* distance (m); an "ok" body of /table carries `durations` with the value
\* diag on the diagonal and off elsewhere, <<>> standing for null.  The other
\* kinds: requests' Timeout and ConnectionError, raise_for_status() failing,
\* a body that is not JSON or lacks the keys read, `durations` with too few
\* rows, `durations` with an entry float() rejects.
NoBody == [duration |-> 0, distance |-> 0, diag |-> <<>>, off |-> <<>>]
FailureKinds == {"timeout", "connection_error", "http_error", "malformed"}
TableFailureKinds == {"short_rows", "not_a_number"}

Responses(call) ==
    {[kind |-> k, body |-> NoBody] : k \in FailureKinds}
    \cup (IF call.method = "matrix_minutes"
          THEN {[kind |-> k, body |-> NoBody] : k \in TableFailureKinds}
               \cup {[kind |-> "ok", body |-> [NoBody EXCEPT !.diag = dg, !.off = o]] :
                        dg \in {<<0>>, <<60>>}, o \in {<<>>, <<-60>>, <<90>>}}
          ELSE {[kind |-> "ok", body |-> [NoBody EXCEPT !.duration = 600, !.distance = 7000]]})

\* a variant in which only the network errors are caught
catches_network_errors_only(kind) == kind \in {"timeout", "connection_error"}

\* the except clauses of route, distance and matrix_minutes: Timeout,
\* ConnectionError, Exception
except_clauses_catch(kind) ==
    kind \in {"timeout", "connection_error"} \/ kind \in FailureKinds \cup TableFailureKinds

\* a variant in which a timeout makes the next call probe again
flag_cleared_on_timeout(flag, kind) ==
    IF kind = "connection_error" THEN "False"
    ELSE IF kind = "timeout" THEN "None"
    ELSE flag

\* _osrm_available after the GET of a call ended in `kind`: only the
\* ConnectionError clause assigns it
flag_after_response(flag, kind) ==
    IF kind = "connection_error" THEN "False" ELSE flag

\* the matrix built from an "ok" body of /table, lines 211-217
table_matrix(n, body) ==
    [i \in 1..n |-> [j \in 1..n |->
        LET entry == IF i = j THEN body.diag ELSE body.off
            sec == IF entry # <<>> THEN entry[1] ELSE 0
        IN Max2(0, RoundHalfEven(sec, 60))]]

\* the value the fallback path of a call returns
Fallback_value(call) ==
    IF call.method = "route"
    THEN haversine_time_seconds(call.coords.km[1], call.coords.km[2])
    ELSE IF call.method = "distance"
    THEN haversine_distance_km(call.coords.km[1], call.coords.km[2])
    ELSE haversine_matrix(call.coords.km)

\* the value returned from an "ok" body
Service_value(call, body) ==
    IF call.method = "route" THEN body.duration
    ELSE IF call.method = "distance" THEN body.distance \div 1000
    ELSE table_matrix(call.coords.n, body)

NoCall == [method |-> "none", coords |-> Coords(0, <<>>), use_osrm |-> TRUE]
NoReturn == [kind |-> "none", source |-> "none", value |-> 0]
\* a worker that has not called the client yet
IdleWorker == [pc |-> "idle", call |-> NoCall, sent |-> 0, response |-> "none",
               ret |-> NoReturn]

FallbackReturn(call) == [kind |-> "return", source |-> "haversine", value |-> Fallback_value(call)]

CallsMade == network.calls

OsrmInit ==
    /\ osrm \in {[use_osrm |-> u, _osrm_available |-> "None"] : u \in BOOLEAN}
    /\ network = [probes |-> 0, requests |-> 0, calls |-> 0]
    /\ callers = [w \in Workers |-> IdleWorker]
    /\ PipelineIdle
    /\ MautIdle
    /\ AcoIdle

\* worker w calls route, distance or matrix_minutes and runs to its first GET
\* or to its return: the size checks of matrix_minutes, _should_use_osrm and
\* the read of _osrm_available in _check_osrm_available
OsrmCall(w, call) ==
    /\ callers[w].pc \in {"idle", "done"}
    /\ CallsMade < MaxCalls
    /\ LET started == [IdleWorker EXCEPT !.call = call]
           small == call.method = "matrix_minutes" /\ call.coords.n <= 1
           too_large == call.method = "matrix_minutes" /\ call.coords.n > MAX_OSRM_NODES
       IN IF small
          THEN /\ callers' = [callers EXCEPT ![w] =
                    [started EXCEPT !.pc = "done",
                                    !.ret = [kind |-> "return", source |-> "none",
                                             value |-> IF call.coords.n = 0 THEN <<>>
                                                       ELSE <<<<0>>>>]]]
               /\ network' = [network EXCEPT !.calls = @ + 1]
          ELSE IF too_large \/ ~osrm.use_osrm \/ ~call.use_osrm
                  \/ osrm._osrm_available = "False"
          THEN /\ callers' = [callers EXCEPT ![w] =
                    [started EXCEPT !.pc = "done", !.ret = FallbackReturn(call)]]
               /\ network' = [network EXCEPT !.calls = @ + 1]
          ELSE IF osrm._osrm_available = "None"
          THEN /\ callers' = [callers EXCEPT ![w] =
                    [started EXCEPT !.pc = "probe", !.sent = 1]]
               /\ network' = [network EXCEPT !.calls = @ + 1, !.probes = @ + 1]
          ELSE /\ callers' = [callers EXCEPT ![w] =
                    [started EXCEPT !.pc = "request", !.sent = 1]]
               /\ network' = [network EXCEPT !.calls = @ + 1, !.requests = @ + 1]
    /\ UNCHANGED <<osrm, pipeline_vars, maut_vars, aco_vars>>

\* the probe GET of worker w ends: _osrm_available is set to resp.ok, or to
\* False on an exception; an available server is then sent the call's GET
OsrmProbeDone(w, outcome) ==
    /\ callers[w].pc = "probe"
    /\ osrm' = [osrm EXCEPT !._osrm_available = IF outcome = "ok" THEN "True" ELSE "False"]
    /\ IF outcome = "ok"
       THEN /\ callers' = [callers EXCEPT ![w].pc = "request", ![w].sent = @ + 1]
            /\ network' = [network EXCEPT !.requests = @ + 1]
       ELSE /\ callers' = [callers EXCEPT ![w].pc = "done",
                                          ![w].ret = FallbackReturn(callers[w].call)]
            /\ UNCHANGED network
    /\ UNCHANGED <<pipeline_vars, maut_vars, aco_vars>>

\* the GET of worker w's call ends in `resp`: the value of the body is
\* returned, or the exception is handled and the fallback value returned
OsrmResponse(w, resp) ==
    /\ callers[w].pc = "request"
    /\ LET call == callers[w].call
       IN /\ resp \in Responses(call)
          /\ callers' = [callers EXCEPT
                ![w].pc = "done",
                ![w].response = resp.kind,
                ![w].ret = IF resp.kind = "ok"
                           THEN [kind |-> "return", source |-> "osrm",
                                 value |-> Service_value(call, resp.body)]
                           ELSE IF except_clauses_catch(resp.kind)
                           THEN FallbackReturn(call)
                           ELSE [kind |-> "raise", source |-> "none", value |-> 0]]
          /\ osrm' = [osrm EXCEPT !._osrm_available = flag_after_response(@, resp.kind)]
    /\ UNCHANGED <<network, pipeline_vars, maut_vars, aco_vars>>

OsrmNext ==
    \/ \E w \in Workers, call \in CallChoices : OsrmCall(w, call)
    \/ \E w \in Workers, outcome \in {"ok", "not_ok", "exception"} : OsrmProbeDone(w, outcome)
    \/ \E w \in Workers :
          \E resp \in Responses(callers[w].call) : OsrmResponse(w, resp)

OsrmSpec == OsrmInit /\ [][OsrmNext]_vars

\* the client used sequentially: one thread makes all the calls
Caller == CHOOSE w \in Workers : \A v \in Workers : w <= v

OsrmSeqNext ==
    \/ \E call \in CallChoices : OsrmCall(Caller, call)
    \/ \E outcome \in {"ok", "not_ok", "exception"} : OsrmProbeDone(Caller, outcome)
    \/ \E resp \in Responses(callers[Caller].call) : OsrmResponse(Caller, resp)

OsrmSeqSpec == OsrmInit /\ [][OsrmSeqNext]_vars

----------------------------------------------------------------------------
(* ant_colony_opt.py: one AntColonyOptimizer and its optimize() call.  A
   distance is <<inf, big, km>>, compared in that order: inf is 1 for np.inf,
   big counts the legs of 1e10, km is the sum of the other legs. *)

MaxCities == 3

INF == <<1, 0, 0>>
ZeroDistance == <<0, 0, 0>>
DistAdd(a, b) == <<0, a[2] + b[2], a[3] + b[3]>>
DistLess(a, b) ==
    \/ a[1] < b[1]
    \/ a[1] = b[1] /\ a[2] < b[2]
    \/ a[1] = b[1] /\ a[2] = b[2] /\ a[3] < b[3]

\* the cities of a distance matrix: 2..MaxCities points on the line, two of
\* them at the same place having distance 0
PointLists ==
    UNION {[1..n -> {[km |-> 0], [km |-> 5], [km |-> 10]}] : n \in 2..MaxCities}

\* the ACOConfig of the run; n_best of the dataclass default, at least n_ants
AcoConfigs == {[n_ants |-> 2, n_iterations |-> 2, n_best |-> 5]}

\* the term _construct_solution adds for the leg i -> j: 1 / heuristic[i, j]
\* when that is positive, else 1e10; with i or j = n the read is outside the
\* array and the term is the one or the other
Legs(ps, i, j) ==
    IF i >= Len(ps) \/ j >= Len(ps) THEN {<<0, 0, 1>>, <<0, 1, 0>>}
    ELSE IF HeuristicPositive(ps, i, j) THEN {<<0, 0, Abs(ps[i + 1].km - ps[j + 1].km)>>}
    ELSE {<<0, 1, 0>>}

\* the loop of optimize, lines 186-189, over the solutions of one iteration
RECURSIVE UpdateBest(_, _, _)
UpdateBest(sols, best_path, best_distance) ==
    IF Len(sols) = 0 THEN [path |-> best_path, distance |-> best_distance]
    ELSE IF DistLess(sols[1].distance, best_distance)
         THEN UpdateBest(Tail(sols), sols[1].path, sols[1].distance)
         ELSE UpdateBest(Tail(sols), best_path, best_distance)

\* solutions[:n_best] after the stable sort by distance
ElitePaths(sols, n_best) ==
    {sols[i].path : i \in {i \in 1..Len(sols) :
        Cardinality({j \in 1..Len(sols) :
            \/ DistLess(sols[j].distance, sols[i].distance)
            \/ sols[j].distance = sols[i].distance /\ j < i}) < n_best}}

\* _update_pheromones indexes self.pheromones, an n x n numpy array, with the
\* cities of the elite paths and of best_path: an index n raises IndexError
UpdateRaises(n, sols, n_best, best_path) ==
    \E path \in ElitePaths(sols, n_best) \cup {best_path} :
        \E k \in 1..Len(path) : path[k] >= n

AcoInit ==
    /\ colony \in {[pts |-> ps, cfg |-> c, iteration |-> 0, solutions |-> <<>>,
                    path |-> <<>>, distance |-> ZeroDistance,
                    best_path |-> <<>>, best_distance |-> INF, status |-> "running"] :
                      ps \in PointLists, c \in AcoConfigs}
    /\ PipelineIdle
    /\ MautIdle
    /\ OsrmIdle

\* _construct_solutions starts the next ant at a random city, lines 135-146
\* and 64-72
AcoAntStart(start) ==
    /\ colony.status = "running"
    /\ colony.iteration < colony.cfg.n_iterations
    /\ colony.path = <<>>
    /\ Len(colony.solutions) < colony.cfg.n_ants
    /\ colony' = [colony EXCEPT !.path = <<start>>, !.distance = ZeroDistance]
    /\ UNCHANGED <<pipeline_vars, maut_vars, osrm_vars>>

\* one step of the loop of _construct_solution, lines 74-91
AcoAntStep(next_city, leg) ==
    /\ colony.status = "running"
    /\ colony.path # <<>>
    /\ Len(colony.path) < Len(colony.pts)
    /\ next_city \in NextCities(colony.pts, colony.path)
    /\ leg \in Legs(colony.pts, colony.path[Len(colony.path)], next_city)
    /\ colony' = [colony EXCEPT !.path = Append(@, next_city),
                                !.distance = DistAdd(@, leg)]
    /\ UNCHANGED <<pipeline_vars, maut_vars, osrm_vars>>

\* the ant returns to its start, lines 93-98, and its solution is appended
AcoAntDone(leg) ==
    /\ colony.status = "running"
    /\ Len(colony.path) = Len(colony.pts)
    /\ leg \in Legs(colony.pts, colony.path[Len(colony.path)], colony.path[1])
    /\ colony' = [colony EXCEPT
                     !.solutions = Append(@, [path |-> colony.path,
                                              distance |-> DistAdd(colony.distance, leg)]),
                     !.path = <<>>,
                     !.distance = ZeroDistance]
    /\ UNCHANGED <<pipeline_vars, maut_vars, osrm_vars>>

\* the rest of one iteration of optimize, lines 185-192
AcoIterationEnd ==
    /\ colony.status = "running"
    /\ colony.path = <<>>
    /\ Len(colony.solutions) = colony.cfg.n_ants
    /\ LET best == UpdateBest(colony.solutions, colony.best_path, colony.best_distance)
       IN colony' =
            IF UpdateRaises(Len(colony.pts), colony.solutions, colony.cfg.n_best, best.path)
            THEN [colony EXCEPT !.best_path = best.path, !.best_distance = best.distance,
                                !.status = "raised"]
            ELSE [colony EXCEPT !.best_path = best.path, !.best_distance = best.distance,
                                !.solutions = <<>>, !.iteration = @ + 1]
    /\ UNCHANGED <<pipeline_vars, maut_vars, osrm_vars>>

\* optimize returns best_path, line 197
AcoReturn ==
    /\ colony.status = "running"
    /\ colony.iteration = colony.cfg.n_iterations
    /\ colony' = [colony EXCEPT !.status = "returned"]
    /\ UNCHANGED <<pipeline_vars, maut_vars, osrm_vars>>

AcoNext ==
    \/ \E start \in 0..(Len(colony.pts) - 1) : AcoAntStart(start)
    \/ \E next_city \in 0..Len(colony.pts), leg \in {<<0, 0, d>> : d \in 0..10} \cup {<<0, 1, 0>>} :
          AcoAntStep(next_city, leg)
    \/ \E leg \in {<<0, 0, d>> : d \in 0..10} \cup {<<0, 1, 0>>} : AcoAntDone(leg)
    \/ AcoIterationEnd
    \/ AcoReturn

AcoSpec == AcoInit /\ [][AcoNext]_vars

----------------------------------------------------------------------------
(* Properties *)

\* the day entries of the plan run_cvrptw returned (empty before it returns)
Days == cvrptw_output.days
PlanReturned == Days # <<>>

Count(s, x) == Cardinality({i \in 1..Len(s) : s[i] = x})
IsPermutation(s, t) ==
    /\ Len(s) = Len(t)
    /\ \A x \in Range(s) \cup Range(t) : Count(s, x) = Count(t, x)

\* the positions <<day, index>> of the non-depot stops of base POI p
StopsOfPoi(p) ==
    UNION {{<<v, i>> : i \in {j \in 1..Len(Days[v].stops) :
                                /\ ~IsDepotStop(Days[v].stops[j])
                                /\ BaseIdOf(Days[v].stops[j].poi_id) = p}}
           : v \in 1..Len(Days)}

\* the node copies build_problem made for base POI p
CopiesOfPoi(p) == {i \in 2..Len(nodes) : BaseIdOf(nodes[i].poi_id) = p}

\* C1: the list optimize_day_route_with_aco returns for a day holds the stops it
\* was given and no others: same length, same multiset
C1_AcoKeepsStops ==
    \A v \in 1..Len(Days) :
        "stops_aco" \in DOMAIN Days[v]
            => IsPermutation(Days[v].stops_aco, Days[v].stops_cvrptw)

\* C2: a mandatory POI whose declared day is a day of the trip is scheduled
\* only on that day, with its arrival inside its declared window; it never
\* appears on another day through one of its other per-day copies
C2_MandatoryOnDeclaredDay ==
    \A p \in DOMAIN req.mandatory :
        req.mandatory[p].day <= Len(day_specs)
            => \A pos \in StopsOfPoi(p) :
                  LET arrival == minutes(Days[pos[1]].stops[pos[2]].arrival)
                  IN /\ pos[1] = req.mandatory[p].day
                     /\ minutes(req.mandatory[p].window[1]) <= arrival
                     /\ arrival <= minutes(req.mandatory[p].window[2])

\* the opening intervals the open-hours entry of POI p lists for a date
OpeningIntervals(p, date) ==
    LET raw == Catalog[p].openHours[weekday_name(date)]
    IN {parse_time_range_label(raw[i]) : i \in 1..Len(raw)} \ {NoRange}

\* C3: every non-depot stop of a POI with opening intervals for the weekday of
\* its day lies wholly inside one of them: arrival at or after the opening,
\* departure at or before the closing
C3_VisitInsideOpeningInterval ==
    \A p \in req.selection :
        \A pos \in StopsOfPoi(p) :
            LET stop == Days[pos[1]].stops[pos[2]]
                ivs == OpeningIntervals(p, day_specs[pos[1]].date)
            IN ivs # {}
                => \E iv \in ivs : /\ iv[1] <= minutes(stop.arrival)
                                   /\ minutes(stop.depart) <= iv[2]

\* C4: across all the days of a plan at most one stop belongs to any base POI
C4_OneStopPerBasePoi ==
    \A p \in req.selection : Cardinality(StopsOfPoi(p)) <= 1

\* a two-day plan that visits, on its second day, a POI with a copy for each day
C4_Witness ==
    /\ Len(Days) = 2
    /\ \E p \in req.selection :
          /\ Cardinality(CopiesOfPoi(p)) = 2
          /\ \E pos \in StopsOfPoi(p) : pos[1] = 2

\* C5 as stated: the first and the last stop of every day are depot visits
C5_FirstAndLastDepot ==
    \A v \in 1..Len(Days) :
        /\ Len(Days[v].stops) > 0
        /\ IsDepotStop(Days[v].stops[1])
        /\ IsDepotStop(Days[v].stops[Len(Days[v].stops)])

\* C5: the last stop of every day is the hotel return, a depot visit; the
\* opening depot visit is not emitted, so the first stop is a depot visit only
\* on a day without POI stops
C5_LastStopIsHotel ==
    \A v \in 1..Len(Days) :
        LET stops == Days[v].stops
        IN /\ Len(stops) > 0
           /\ stops[Len(stops)].role = "hotel"
           /\ stops[Len(stops)].poi_id = nodes[1].poi_id
           /\ \A i \in 1..(Len(stops) - 1) : ~IsDepotStop(stops[i])

\* a day with POI stops, whose first stop is one of them
C5_Witness ==
    \E v \in 1..Len(Days) :
        /\ Len(Days[v].stops) >= 2
        /\ ~IsDepotStop(Days[v].stops[1])

\* C6: no two meal stops are adjacent in a day
C6_NoAdjacentMeals ==
    \A v \in 1..Len(Days) :
        \A i \in 1..(Len(Days[v].stops) - 1) :
            ~(Days[v].stops[i].role = "meal" /\ Days[v].stops[i + 1].role = "meal")

\* the meal nodes of 0-based day v, and over all days
MealNodesOfDay(v) == {i \in 2..Len(nodes) : nodes[i].role = "meal" /\ nodes[i].poi_id[2] = v}
MealNodes == {i \in 2..Len(nodes) : nodes[i].role = "meal"}

\* C7 as stated: the hard minimum of the meals of a day is min(1, meal nodes
\* available that day)
C7_MinimumIsOneMeal ==
    pc = "solving"
        => \A v \in 0..(Len(day_specs) - 1) :
              MealsEndRange(nodes, v, meals_required)[1]
                  = Min2(1, Cardinality(MealNodesOfDay(v)))

\* C7: every day of a returned plan has at least min(R, meal nodes available
\* that day) meals, R = min(2, meal nodes div days), and at most 3, and no
\* more than are available that day when that minimum is positive
C7_MealRange ==
    \A v \in 1..Len(Days) :
        LET avail == Cardinality(MealNodesOfDay(v - 1))
            R == Min2(2, Cardinality(MealNodes) \div Len(day_specs))
        IN /\ Days[v].meals >= Min2(R, avail)
           /\ Days[v].meals <= 3
           /\ Min2(R, avail) > 0 => Days[v].meals <= Min2(3, avail)

\* a day with three meals out of four available, under a minimum of two
C7_Witness ==
    \E v \in 1..Len(Days) :
        /\ Days[v].meals = 3
        /\ Cardinality(MealNodesOfDay(v - 1)) = 4
        /\ meals_required = 2

\* C8: with no meal POI selected and a schedulable attraction, the pipeline
\* reports success with one entry per day, each with meals = 0
C8_NoMealPlanSucceeds ==
    (/\ pc = "returned"
     /\ req.hotel.has_coords
     /\ \A p \in req.selection : Catalog[p].list # "meal"
     /\ Len(nodes) > 1)
        => /\ result.status = "success"
           /\ Len(result.days) = Len(day_specs)
           /\ \A v \in 1..Len(result.days) : result.days[v].meals = 0

\* POI p is closed on the k-th day: its open-hours entry for the weekday of
\* that day is the label "closed"
ClosedOn(p, k) ==
    Catalog[p].openHours[weekday_name(day_specs[k].date)] = <<Closed>>

\* C9: a POI whose open-hours entry for the weekday of day k is "closed" has no
\* node copy for day k and no stop on day k
C9_ClosedDayHasNoCopy ==
    \A p \in req.selection :
        \A k \in 1..Len(day_specs) :
            ClosedOn(p, k)
                => /\ \A i \in 1..Len(nodes) : nodes[i].poi_id # CompositeId(p, k - 1)
                   /\ \A pos \in StopsOfPoi(p) : pos[1] # k

\* a plan that visits, on another day, a POI closed on one of the days
C9_Witness ==
    \E p \in req.selection :
        /\ \E k \in 1..Len(day_specs) : ClosedOn(p, k)
        /\ StopsOfPoi(p) # {}

\* C10: run_cvrptw never raises; when there are no day specs, only the depot
\* node, no solution or an exception, it returns empty days with a note
C10_RunCvrptwNeverRaises ==
    /\ raised # "run_cvrptw"
    /\ pc = "cvrptw_returned"
        => ((\/ ~req.hotel.has_coords
             \/ day_specs = <<>>
             \/ Len(nodes) <= 1
             \/ Len(plan) < Len(day_specs))
                => /\ cvrptw_output.days = <<>>
                   /\ cvrptw_output.note \notin {None, "pending"})

\* run_cvrptw has returned from its except clause
C10_Witness ==
    /\ pc = "cvrptw_returned"
    /\ ~req.hotel.has_coords
    /\ cvrptw_output = [days |-> <<>>, note |-> "Exception in run_cvrptw"]

\* C11: whatever the catalog returned, a call with num_days = d selects at most
\* min(12d, 300) attractions, min(5d, 50) meals and min(d + 5, 15)
\* accommodations, and count_out never exceeds count_in
C11_QuotasHold ==
    \A d \in DOMAIN maut_out :
        /\ maut_out[d].by_role.attraction <= Min2(12 * d, 300)
        /\ maut_out[d].by_role.meal <= Min2(5 * d, 50)
        /\ maut_out[d].by_role.accommodation <= Min2(d + 5, 15)
        /\ maut_out[d].count_out <= maut_out[d].count_in

\* a call on a list with more attractions, meals and accommodations than the
\* quotas, cut down to the quotas
C11_Witness ==
    \E d \in DOMAIN maut_out :
        /\ Len(by_role(payload.rows, "attraction")) > 12 * d
        /\ Len(by_role(payload.rows, "meal")) > 5 * d
        /\ Len(by_role(payload.rows, "accommodation")) > d + 5
        /\ maut_out[d].by_role = [attraction |-> 12 * d, meal |-> 5 * d,
                                  accommodation |-> d + 5]

\* the num_days values over which the quotas are compared
QuotaDays == 1..30

FirstPos(s, x) == CHOOSE i \in 1..Len(s) : s[i] = x /\ \A j \in 1..(i - 1) : s[j] # x

Fallback == <<"shopping", "cultural_history", "nature">>

\* C13: selected_themes is three pairwise distinct themes: the first distinct
\* interest themes in their order (at most three), then the fallback themes
\* not yet present, in their order, as far as needed; it is determined by
\* interest_themes alone
C13_ThreeDistinctThemes ==
    \A d \in DOMAIN maut_out :
        LET t == payload.interest_themes
            sel == maut_out[d].selected_themes
            k == Min2(3, Cardinality(Range(t)))
        IN /\ Len(sel) = 3
           /\ \A i, j \in 1..3 : i # j => sel[i] # sel[j]
           /\ \A i \in 1..k :
                 /\ sel[i] \in Range(t)
                 /\ \A j \in (i + 1)..k : FirstPos(t, sel[i]) < FirstPos(t, sel[j])
                 /\ \A x \in Range(t) \ {sel[j] : j \in 1..k} :
                        FirstPos(t, sel[i]) < FirstPos(t, x)
           /\ \A i \in (k + 1)..3 :
                 /\ sel[i] \in Range(Fallback) \ Range(t)
                 /\ \A j \in (i + 1)..3 : FirstPos(Fallback, sel[i]) < FirstPos(Fallback, sel[j])
                 /\ \A x \in (Range(Fallback) \ Range(t)) \ {sel[j] : j \in (k + 1)..3} :
                        FirstPos(Fallback, sel[i]) < FirstPos(Fallback, x)
           /\ \A e \in DOMAIN maut_out : maut_out[e].selected_themes = sel

\* a call whose interest_themes is longer than three, repeats a theme and still
\* needs a fallback theme
C13_Witness ==
    /\ maut_out # <<>>
    /\ Len(payload.interest_themes) = 4
    /\ Cardinality(Range(payload.interest_themes)) = 2

\* C14: route, distance and matrix_minutes never raise; when the probe or the
\* GET fails (timeout, connection error, HTTP error status, malformed or
\* incomplete body) they return the Haversine value, and a matrix of more than
\* 1600 coordinates is answered with the Haversine matrix without any GET
C14_FallbackNeverRaises ==
    \A w \in Workers :
        LET c == callers[w]
            km == c.call.coords.km
            failed == \/ c.response \in FailureKinds \cup TableFailureKinds
                      \/ c.sent = 1 /\ c.response = "none"
            too_large == c.call.method = "matrix_minutes" /\ c.call.coords.n > 1600
        IN /\ c.ret.kind # "raise"
           /\ too_large => c.sent = 0
           /\ (c.pc = "done" /\ (failed \/ too_large))
                 => /\ c.ret.kind = "return"
                    /\ c.ret.source = "haversine"
                    /\ c.call.method = "route" => c.ret.value = Abs(km[1] - km[2]) * 120
                    /\ c.call.method = "distance" => c.ret.value = Abs(km[1] - km[2])
                    /\ c.call.method = "matrix_minutes" => c.ret.value = haversine_matrix(km)

\* one call answered from the fallback after an HTTP error status, another one
\* for a matrix of 1601 coordinates
C14_Witness ==
    \E w1, w2 \in Workers :
        /\ callers[w1].pc = "done"
        /\ callers[w1].response = "http_error"
        /\ callers[w1].ret.source = "haversine"
        /\ callers[w2].pc = "done"
        /\ callers[w2].call.coords.n > 1600

\* C15: on the shared client the availability probe is sent at most once,
\* however the calls of the workers interleave
C15_ProbeAtMostOnce == network.probes <= 1

\* C19: matrix_minutes returns, for N >= 1 coordinates, an N x N matrix of
\* non-negative whole minutes with a zero diagonal, from the service as from the
\* fallback
C19_MatrixZeroDiagonal ==
    \A w \in Workers :
        LET c == callers[w]
            N == Len(c.call.coords.km)
            m == c.ret.value
        IN (c.pc = "done" /\ c.call.method = "matrix_minutes" /\ N >= 1)
              => /\ Len(m) = N
                 /\ \A i \in 1..N : /\ Len(m[i]) = N
                                    /\ \A j \in 1..N : m[i][j] \in Nat
                                    /\ m[i][i] = 0

\* C16: a plan with non-empty days has as many days as the num_days resolved
\* for the request (the value the Selector took its quotas from), the days in
\* order with days[k].date = start date + k, and with specific dates the first
\* day is startDate and the last day endDate
C16_DayCountMatchesNumDays ==
    PlanReturned
        => /\ Len(Days) = req.dates.num_days
           /\ \A k \in 1..Len(Days) : Days[k].date = req.dates.startDate + (k - 1)
           /\ req.dates.type = "specific"
                 => /\ Days[1].date = req.dates.startDate
                    /\ Days[Len(Days)].date = req.dates.startDate + req.dates.span - 1

\* the days the refiner loop has finished
RefinedDays == {v \in 1..Len(cvrptw_output.days) : "stops_aco" \in DOMAIN cvrptw_output.days[v]}

\* C17: every day with at most 2 non-depot stops leaves the refiner with its
\* stop list unchanged (same stops, same order, same length) and without an
\* ACO run applied to it
C17_SmallDayPassesThrough ==
    \A v \in RefinedDays :
        LET day == cvrptw_output.days[v]
        IN Len(SelectSeq(day.stops_cvrptw, LAMBDA st : ~IsDepotStop(st))) <= 2
              => /\ day.stops_aco = day.stops_cvrptw
                 /\ day.optimization_method = "cvrptw"

RECURSIVE SumDays(_, _)
SumDays(days, field) ==
    IF Len(days) = 0 THEN 0 ELSE days[1][field] + SumDays(Tail(days), field)

\* C20: for every plan the total distance of the ACO-ordered days, depot legs
\* included, is at most 1.2 times the total distance of the same days in the
\* solver's order
C20_AcoWithinTwentyPercent ==
    (/\ result # NoResult
     /\ result.status = "success"
     /\ \A v \in 1..Len(result.days) : "total_distance_aco" \in DOMAIN result.days[v])
        => 10 * SumDays(result.days, "total_distance_aco")
              <= 12 * SumDays(result.days, "total_distance_cvrptw")

\* a tour of n cities: n indices in 0..n-1, each city exactly once
IsTour(path, n) ==
    /\ Len(path) = n
    /\ \A k \in 1..Len(path) : path[k] \in 0..(n - 1)
    /\ \A c \in 0..(n - 1) : Cardinality({k \in 1..Len(path) : path[k] = c}) = 1

\* C18: for every distance matrix with n >= 2, coincident points included,
\* and every outcome of the random draws, each tour an ant has built and the
\* best_path of the optimizer has length n, holds only indices in 0..n-1 and
\* holds each city exactly once
C18_EveryTourIsPermutation ==
    /\ \A i \in 1..Len(colony.solutions) :
          IsTour(colony.solutions[i].path, Len(colony.pts))
    /\ colony.best_path # <<>> => IsTour(colony.best_path, Len(colony.pts))

\* the day horizon the claim states for a pacing, in minutes
StatedHorizon(pacing) ==
    IF pacing = "relaxed" THEN 9 * 60 ELSE IF pacing = "balanced" THEN 11 * 60 ELSE 13 * 60

\* the arrival at the closing depot stop of day v, minutes from midnight
DayEnd(v) == minutes(Days[v].stops[Len(Days[v].stops)].arrival)

\* C21: in every plan with non-empty days the cumulative time at the end of
\* each day's route, the arrival at the closing depot stop, lies within
\* [09:00, 09:00 + horizon(pacing)], horizon 9h, 11h, 13h for relaxed,
\* balanced, packed
C21_DayEndWithinWindow ==
    \A v \in 1..Len(Days) :
        /\ 9 * 60 <= DayEnd(v)
        /\ DayEnd(v) <= 9 * 60 + StatedHorizon(req.pacing)

\* a relaxed day with POI stops that ends in the last hour of its window
C21_Witness ==
    /\ req.pacing = "relaxed"
    /\ \E v \in 1..Len(Days) :
          /\ Len(Days[v].stops) >= 2
          /\ DayEnd(v) > 17 * 60

\* C22: the applicable scoring dimensions of a request and a POI are interest,
\* cost and popularity always, child iff has_child, pet iff has_pets, access
\* iff wheelchair_accessible, and dietary iff is_muslim is true and the POI
\* has the meal role, whatever the dietary_restrictions list holds
C22_DietaryIffMuslimAndMeal ==
    scoring.pc = "scored"
        => LET f == scoring.req.flags
           IN /\ {"interest", "cost", "popularity"} \subseteq scoring.dims
              /\ "child" \in scoring.dims <=> f.has_child
              /\ "pet" \in scoring.dims <=> f.has_pets
              /\ "access" \in scoring.dims <=> f.wheelchair_accessible
              /\ "dietary" \in scoring.dims
                    <=> (f.is_muslim /\ "meal" \in scoring.poi_roles)

\* the attraction pool of the theme step of the call with num_days = d: the
\* attraction rows by score, without those the accommodation and meal lists
\* took
AttractionPool(d) ==
    LET out == maut_out[d].pois_by_role
    IN SelectSeq(SortByScore(by_role(payload.rows, "attraction")),
                 LAMBDA r : r.id \notin Ids(out.accommodation) \cup Ids(out.meal))

\* the bucket of the selected theme at index idx in the call with num_days = d
BucketOf(d, idx) ==
    LET out == maut_out[d]
    IN ThemeBucket(AttractionPool(d), out.selected_themes,
                   role_keep_counts(d).attraction, idx,
                   Ids(out.pois_by_role.accommodation) \cup Ids(out.pois_by_role.meal))

\* C23: each theme bucket is filled with the highest-scored not-yet-selected
\* attractions carrying its theme: an attraction carrying theme t that is not
\* in an earlier bucket is left out of t's bucket only if that bucket already
\* holds its full share of attractions carrying t with scores at least as
\* high, also for attractions that carry more than one selected theme
C23_BucketTakesBestOfTheme ==
    \A d \in DOMAIN maut_out :
        LET sel == maut_out[d].selected_themes
            pool == AttractionPool(d)
            quota == role_keep_counts(d).attraction
        IN \A idx \in 1..Len(sel) :
              \A i \in 1..Len(pool) :
                 (/\ sel[idx] \in Range(pool[i].themes)
                  /\ \A k \in 1..idx : pool[i].id \notin Ids(BucketOf(d, k)))
                    => LET bucket == BucketOf(d, idx)
                       IN Cardinality({j \in 1..Len(bucket) :
                                          /\ sel[idx] \in Range(bucket[j].themes)
                                          /\ bucket[j]._score >= pool[i]._score})
                            >= theme_quota(quota, sel, idx)

\* C27: the selection of trim_by_role holds each POI id at most once across
\* the accommodation, meal and attraction lists, also when the catalog
\* returned the same id in more than one row
C27_SelectionHasNoRepeatedId ==
    \A d \in DOMAIN maut_out :
        LET out == maut_out[d].pois_by_role
            all == out.accommodation \o out.meal \o out.attraction
        IN \A i, j \in 1..Len(all) : all[i].id = all[j].id => i = j

\* the primary theme of node i as the claim states it: the index of the first
\* selected theme that appears among the POI's themes, 0 if none does
PrimaryTheme(i) ==
    LET hits == {k \in 1..Len(meta_selected_themes) :
                    meta_selected_themes[k] \in Range(nodes[i].themes)}
    IN IF hits = {} THEN 0 ELSE CHOOSE k \in hits : \A h \in hits : k <= h

\* what transit_cb adds to the arc i -> j for the themes of the two nodes
ThemePenalty(i, j) ==
    transit_cb(nodes, i, j) - travel(nodes, i, j) - nodes[i].service
    - (IF nodes[i].role = "meal" /\ nodes[j].role = "meal" THEN PENALTY_MEAL_TO_MEAL ELSE 0)

\* C24: the arc cost from node i to node j adds the same-theme penalty of 15
\* if and only if both nodes have a primary theme and the two are equal, the
\* primary theme being the first selected theme among the POI's themes
C24_PenaltyIffSamePrimaryTheme ==
    pc = "solving"
        => \A i, j \in 1..Len(nodes) :
              i # j => (ThemePenalty(i, j) = 15
                           <=> (PrimaryTheme(i) # 0 /\ PrimaryTheme(i) = PrimaryTheme(j)))

SameTimes(a, b) ==
    /\ a.poi_id = b.poi_id
    /\ a.arrival = b.arrival
    /\ a.start_service = b.start_service
    /\ a.depart = b.depart

\* C25: the ACO stage leaves date, meals and stops of each day as the solver
\* returned them, every stop of the reordered list carries the arrival,
\* start_service and depart of the same stop in the solver's list, and the
\* reordered list differs from the solver's list in its order only
C25_AcoKeepsDayAndTimes ==
    \A v \in RefinedDays :
        LET day == cvrptw_output.days[v]
        IN /\ day.date = plan[v].date
           /\ day.meals = plan[v].meals
           /\ day.stops = plan[v].stops
           /\ \A i \in 1..Len(day.stops_aco) :
                 \E j \in 1..Len(day.stops) : SameTimes(day.stops_aco[i], day.stops[j])
           /\ IsPermutation(day.stops_aco, day.stops_cvrptw)

\* C26: run_full_pipeline never raises and runs its stages in order: the
\* refiner touches a day only after the solver returned a plan with non-empty
\* days; the result has status "success" exactly when its days are non-empty,
\* and otherwise status "error", no days and an error message
C26_StagesInOrderAndNoRaise ==
    /\ RefinedDays # {}
          => /\ pc \in {"aco", "except", "returned"}
             /\ Len(plan) = Len(day_specs)
             /\ Len(cvrptw_output.days) > 0
             /\ cvrptw_output.note = None
    /\ raised # None => pc \in {"except", "returned"}
    /\ pc = "returned"
          => /\ result.status \in {"success", "error"}
             /\ result.status = "success" <=> result.days # <<>>
             /\ result.status = "error"
                   => /\ result.days = <<>>
                      /\ result.error # None
                      /\ result.error \in
                            {"No hotel provided and no hotel selected by MAUT",
                             cvrptw_output.note, raised}

\* a call whose refiner raised has returned an error result
C26_Witness ==
    /\ pc = "returned"
    /\ raised # None
    /\ result.status = "error"
    /\ Len(cvrptw_output.days) > 0

\* the distinct meal POIs among the nodes
MealPois == {BaseIdOf(nodes[i].poi_id) : i \in MealNodes}

\* C28: the per-day meal minimums are jointly satisfiable under the
\* one-visit-per-POI disjunctions: their sum never exceeds the number of
\* distinct meal POIs, and a selection with at least one meal POI, fewer meal
\* POIs than days and time to visit them still yields a plan with days
C28_MealMinimumsSatisfiable ==
    /\ pc = "solving"
          => SeqSum([k \in 1..Len(day_specs) |->
                        MealsEndRange(nodes, k - 1, meals_required)[1]])
                <= Cardinality(MealPois)
    /\ (/\ pc = "returned"
        /\ req.hotel.has_coords
        /\ MealPois # {}
        /\ Cardinality(MealPois) < Len(day_specs)
        /\ \A p \in MealPois : Catalog[p].openHours = NoHours)
          => /\ result.status = "success"
             /\ result.days # <<>>

\* C29: when the solver returned a plan with non-empty days, a failure inside
\* the ACO refiner for some day does not discard the plan: run_full_pipeline
\* still returns status "success" with the solver's days
C29_AcoFailureKeepsPlan ==
    (/\ pc = "returned"
     /\ raised = "optimize_day_route_with_aco")
        => /\ result.status = "success"
           /\ Len(result.days) = Len(plan)
           /\ \A v \in 1..Len(plan) :
                 /\ result.days[v].date = plan[v].date
                 /\ result.days[v].stops = plan[v].stops

\* one step of the client in which the availability flag, once False, stays
\* False, no GET is sent and the call that ends returns the Haversine value,
\* and in which a timeout or a malformed response leaves the flag as it was
FlagFalseIsFinalStep ==
    /\ osrm._osrm_available = "False"
          => /\ osrm'._osrm_available = "False"
             /\ network'.probes = network.probes
             /\ network'.requests = network.requests
             /\ \A w \in Workers :
                   callers'[w] # callers[w]
                      => /\ callers'[w].pc = "done"
                         /\ callers'[w].sent = 0
                         /\ callers'[w].ret.kind = "return"
                         /\ callers'[w].ret.value = Fallback_value(callers'[w].call)
    /\ \A w \in Workers :
          (/\ callers[w].pc = "request"
           /\ callers'[w].pc = "done"
           /\ callers'[w].response \in {"timeout", "malformed"})
             => osrm'._osrm_available = osrm._osrm_available

\* C30: on one client used sequentially, once the availability flag is False
\* it never becomes True again, no later call sends an HTTP request and every
\* later result is the Haversine value; a timeout or a malformed response
\* alone does not change the flag
C30_FlagFalseIsFinal == [][FlagFalseIsFinalStep]_vars

\* after a connection error in the first call, the second call has returned
\* the Haversine value without sending a request
C30_Witness ==
    /\ osrm.use_osrm
    /\ osrm._osrm_available = "False"
    /\ network.calls = 2
    /\ network.probes = 1
    /\ network.requests = 1
    /\ callers[Caller].pc = "done"
    /\ callers[Caller].call.method = "route"
    /\ callers[Caller].call.use_osrm
    /\ callers[Caller].sent = 0
    /\ callers[Caller].ret = FallbackReturn(callers[Caller].call)

====
